---------------------------- MODULE Spec2Model ----------------------------
(***************************************************************************)
(* Model of dagre-graph (src/dagre-graph/src/lib.rs): DaggerMapGraph, a    *)
(* BTreeMap from owned nodes (Rc) to their Edges (incoming, outgoing,      *)
(* ring log), driven through the DagreProtocol operations.                 *)
(*                                                                         *)
(* A node allocation (Rc<RefCell<DagreNode>>) is the pair <<key, id>>: the  *)
(* unique key of its payload and the number of the allocation among those  *)
(* the store inserted for that key.  A Weak handle is the same pair; it     *)
(* upgrades while the store still owns that very allocation.               *)
(***************************************************************************)
EXTENDS Integers, Sequences, FiniteSets, TLC

\* ------------------------------------------------------------------ bounds
NumKeys == 2
MaxAllocs == 3
MaxEdges == 3
MaxLog == 5

Keys == 1..NumKeys

\* The ring-log workload: one key, self-links only, a log one past BUFSIZE.
RingMaxEdges == 2
RingMaxLog == 21

RingKeys == {1}

\* ------------------------------------------------------- program constants
BUFSIZE == 20

VARIABLES
    store,   \* DaggerMapGraph: live key -> [id, incoming, outgoing, log_buf, hist]
    allocs,  \* per key, how many node allocations the store has inserted
    last,    \* the caller's latest call: operation, arguments, value returned
    before   \* history: store and allocs as they were when that call was made

vars == <<store, allocs, last, before>>

\* ------------------------------------------------------------ NodeLike
\* TestNode(k): unique() is k, label() is the decimal text of k.
unique(k) == k

label(k) == ToString(k)

\* ------------------------------------------------------------ DagreEvent
Add(l) == <<"Add", l>>

From(l) == <<"From", l>>

To(l) == <<"To", l>>

Remove(l) == <<"Remove", l>>

UnlinkInc(l) == <<"UnlinkInc", l>>

UnlinkOut(l) == <<"UnlinkOut", l>>

to_string(event) ==
    CASE event[1] = "Add"    -> "[+]   " \o event[2] \o "\n"
      [] event[1] = "From"   -> event[2] \o " -> *\n"
      [] event[1] = "To"     -> "*  -> " \o event[2] \o "\n"
      [] event[1] = "Remove" -> "[-]   " \o event[2] \o "\n"
      [] event[1] = "UnlinkInc" -> "* -/-> " \o event[2] \o "\n"
      [] event[1] = "UnlinkOut" -> event[2] \o " -/-> *\n"

\* ---------------------------------------------------------- DagreRingLog
\* log_buf is a VecDeque; index 1 is its front.
NewLog == << >>

write(log_buf, event) == <<to_string(event)>> \o log_buf

Reverse(s) == [i \in 1..Len(s) |-> s[Len(s) + 1 - i]]

\* Mutant of dumps: the buffer written front to back, without rev().
dumps_front_first(log_buf) == log_buf

\* dumps writes log_buf.iter().rev() to the sink, entry by entry.
dumps(log_buf) == Reverse(log_buf)

\* ----------------------------------------------------------------- Edges
\* hist is a history field: the events written to this log, oldest first.
NewEdges(id) ==
    [id |-> id, incoming |-> << >>, outgoing |-> << >>, log_buf |-> NewLog,
     hist |-> << >>]

\* Mutant of strong_count: identity taken from the key alone, so a handle of an
\* evicted node counts as live once its key is inserted again.
strong_count_by_key(g, h) == IF h[1] \in DOMAIN g THEN 1 ELSE 0

\* Weak::strong_count: the store's key is the only lasting strong reference.
strong_count(g, h) == IF h[1] \in DOMAIN g /\ g[h[1]].id = h[2] THEN 1 ELSE 0

\* Weak::upgrade succeeds while a strong reference is left.
Upgrades(g, h) == strong_count(g, h) # 0

\* BTreeMap lookup of an upgraded handle: by the key of the node (Ord is by unique()).
Present(g, h) == Upgrades(g, h) /\ unique(h[1]) \in DOMAIN g

\* Mutant of retain_live: the filter empties the list.
retain_none(g, list) == << >>

\* Mutant of retain_live: nothing is filtered (the evicted node still counted).
retain_all(g, list) == list

\* Vec::retain(|o| o.strong_count() != 0)
RECURSIVE retain_live(_, _)
retain_live(g, list) ==
    IF list = << >> THEN << >>
    ELSE IF strong_count(g, Head(list)) # 0
         THEN <<Head(list)>> \o retain_live(g, Tail(list))
         ELSE retain_live(g, Tail(list))

add_to_incoming(e, val) == [e EXCEPT !.incoming = Append(@, val)]

add_to_outgoing(e, val) == [e EXCEPT !.outgoing = Append(@, val)]

\* mut_logs().write(event)
write_log(e, event) ==
    [e EXCEPT !.log_buf = write(@, event), !.hist = Append(@, event)]

\* Mutant of invalidate_incoming: Remove is logged but the outgoing lists are
\* left as they are.
RECURSIVE invalidate_incoming_unfiltered(_, _, _)
invalidate_incoming_unfiltered(g, list, labelremoved) ==
    IF list = << >> THEN g
    ELSE LET inc == Head(list)
             g1 == IF Present(g, inc)
                   THEN [g EXCEPT ![inc[1]] = write_log(@, Remove(labelremoved))]
                   ELSE g
         IN  invalidate_incoming_unfiltered(g1, Tail(list), labelremoved)

\* The first loop of invalidate_from: for each entry of the evicted node's
\* incoming list that still resolves, log Remove and filter its outgoing list.
RECURSIVE invalidate_incoming(_, _, _)
invalidate_incoming(g, list, labelremoved) ==
    IF list = << >> THEN g
    ELSE LET inc == Head(list)
             g1 == IF Present(g, inc)
                   THEN [g EXCEPT ![inc[1]] =
                            [write_log(@, Remove(labelremoved))
                                EXCEPT !.outgoing = retain_live(g, @)]]
                   ELSE g
         IN  invalidate_incoming(g1, Tail(list), labelremoved)

\* Mutant of invalidate_outgoing: the incoming lists are filtered but no
\* Remove event is written.
RECURSIVE invalidate_outgoing_silent(_, _, _)
invalidate_outgoing_silent(g, list, labelremoved) ==
    IF list = << >> THEN g
    ELSE LET out == Head(list)
             g1 == IF Present(g, out)
                   THEN [g EXCEPT ![out[1]].incoming = retain_live(g, @)]
                   ELSE g
         IN  invalidate_outgoing_silent(g1, Tail(list), labelremoved)

\* The second loop: for each entry of the evicted node's outgoing list that
\* still resolves, log Remove and filter its incoming list.
RECURSIVE invalidate_outgoing(_, _, _)
invalidate_outgoing(g, list, labelremoved) ==
    IF list = << >> THEN g
    ELSE LET out == Head(list)
             g1 == IF Present(g, out)
                   THEN [g EXCEPT ![out[1]] =
                            [write_log(@, Remove(labelremoved))
                                EXCEPT !.incoming = retain_live(g, @)]]
                   ELSE g
         IN  invalidate_outgoing(g1, Tail(list), labelremoved)

invalidate_from(edges, g, labelremoved) ==
    invalidate_outgoing(invalidate_incoming(g, edges.incoming, labelremoved),
                        edges.outgoing, labelremoved)

\* ------------------------------------------------- DagreProtocol, as functions
\* Mutant of node_store: the new entry is inserted without the Add log write.
node_store_silent(g, al, k) ==
    IF unique(k) \in DOMAIN g THEN g
    ELSE [x \in DOMAIN g \cup {unique(k)} |->
            IF x = unique(k) THEN NewEdges(al[k] + 1) ELSE g[x]]

\* Mutant of node_store: the entry is inserted without the check for a live key.
node_store_overwrite(g, al, k) ==
    [x \in DOMAIN g \cup {unique(k)} |->
        IF x = unique(k)
        THEN write_log(NewEdges(al[k] + 1), Add(label(k)))
        ELSE g[x]]

\* node: the store after the call.
node_store(g, al, k) ==
    IF unique(k) \in DOMAIN g THEN g
    ELSE [x \in DOMAIN g \cup {unique(k)} |->
            IF x = unique(k)
            THEN write_log(NewEdges(al[k] + 1), Add(label(k)))
            ELSE g[x]]

\* node: the allocation counter after the call.
node_allocs(g, al, k) ==
    IF unique(k) \in DOMAIN g THEN al ELSE [al EXCEPT ![k] = @ + 1]

\* node: the handle returned.
node_ret(g, al, k) ==
    IF unique(k) \in DOMAIN g THEN <<k, g[unique(k)].id>> ELSE <<k, al[k] + 1>>

\* Mutant of unidirectional: each side logs its own label instead of the peer's.
unidirectional_own_label(g, origin, destination) ==
    IF Upgrades(g, origin) /\ Upgrades(g, destination)
    THEN LET g1 == IF origin[1] \in DOMAIN g
                   THEN [g EXCEPT ![origin[1]] =
                            write_log(add_to_outgoing(@, destination),
                                      To(label(origin[1])))]
                   ELSE g
             g2 == IF destination[1] \in DOMAIN g1
                   THEN [g1 EXCEPT ![destination[1]] =
                            write_log(add_to_incoming(@, origin),
                                      From(label(destination[1])))]
                   ELSE g1
         IN  g2
    ELSE g

\* Mutant of unidirectional: an edge already present is not added again.
unidirectional_dedup(g, origin, destination) ==
    IF Upgrades(g, origin) /\ Upgrades(g, destination)
    THEN LET g1 == IF origin[1] \in DOMAIN g
                      /\ \A i \in 1..Len(g[origin[1]].outgoing) :
                             g[origin[1]].outgoing[i] # destination
                   THEN [g EXCEPT ![origin[1]] =
                            write_log(add_to_outgoing(@, destination),
                                      To(label(destination[1])))]
                   ELSE g
             g2 == IF destination[1] \in DOMAIN g1
                      /\ \A i \in 1..Len(g1[destination[1]].incoming) :
                             g1[destination[1]].incoming[i] # origin
                   THEN [g1 EXCEPT ![destination[1]] =
                            write_log(add_to_incoming(@, origin),
                                      From(label(origin[1])))]
                   ELSE g1
         IN  g2
    ELSE g

\* Mutant of unidirectional: the nodes are looked up by key without upgrading
\* the handles first.
unidirectional_by_key(g, origin, destination) ==
    LET g1 == IF origin[1] \in DOMAIN g
              THEN [g EXCEPT ![origin[1]] =
                       write_log(add_to_outgoing(@, destination),
                                 To(label(destination[1])))]
              ELSE g
        g2 == IF destination[1] \in DOMAIN g1
              THEN [g1 EXCEPT ![destination[1]] =
                       write_log(add_to_incoming(@, origin),
                                 From(label(origin[1])))]
              ELSE g1
    IN  g2

unidirectional(g, origin, destination) ==
    IF Upgrades(g, origin) /\ Upgrades(g, destination)
    THEN LET g1 == IF origin[1] \in DOMAIN g
                   THEN [g EXCEPT ![origin[1]] =
                            write_log(add_to_outgoing(@, destination),
                                      To(label(destination[1])))]
                   ELSE g
             g2 == IF destination[1] \in DOMAIN g1
                   THEN [g1 EXCEPT ![destination[1]] =
                            write_log(add_to_incoming(@, origin),
                                      From(label(origin[1])))]
                   ELSE g1
         IN  g2
    ELSE g

\* Mutant of bidirectional: the origin records the destination twice in its
\* outgoing list and never in its incoming list.
bidirectional_out_twice(g, origin, destination) ==
    IF Upgrades(g, origin) /\ Upgrades(g, destination)
    THEN LET g1 == IF origin[1] \in DOMAIN g
                   THEN [g EXCEPT ![origin[1]] =
                            write_log(
                              write_log(
                                add_to_outgoing(add_to_outgoing(@, destination),
                                                destination),
                                To(label(destination[1]))),
                              From(label(origin[1])))]
                   ELSE g
             g2 == IF destination[1] \in DOMAIN g1
                   THEN [g1 EXCEPT ![destination[1]] =
                            write_log(
                              write_log(
                                add_to_outgoing(add_to_incoming(@, origin), origin),
                                From(label(origin[1]))),
                              To(label(origin[1])))]
                   ELSE g1
         IN  g2
    ELSE g

\* Mutant of bidirectional: only the origin -> destination direction is recorded.
bidirectional_one_way(g, origin, destination) ==
    IF Upgrades(g, origin) /\ Upgrades(g, destination)
    THEN LET g1 == IF origin[1] \in DOMAIN g
                   THEN [g EXCEPT ![origin[1]] =
                            write_log(add_to_outgoing(@, destination),
                                      To(label(destination[1])))]
                   ELSE g
             g2 == IF destination[1] \in DOMAIN g1
                   THEN [g1 EXCEPT ![destination[1]] =
                            write_log(add_to_incoming(@, origin),
                                      From(label(origin[1])))]
                   ELSE g1
         IN  g2
    ELSE g

bidirectional(g, origin, destination) ==
    IF Upgrades(g, origin) /\ Upgrades(g, destination)
    THEN LET lab  == label(destination[1])
             flab == label(origin[1])
             g1 == IF origin[1] \in DOMAIN g
                   THEN [g EXCEPT ![origin[1]] =
                            write_log(
                              write_log(
                                add_to_incoming(add_to_outgoing(@, destination),
                                                destination),
                                To(lab)),
                              From(flab))]
                   ELSE g
             lab2 == label(origin[1])
             tlab == label(origin[1])
             g2 == IF destination[1] \in DOMAIN g1
                   THEN [g1 EXCEPT ![destination[1]] =
                            write_log(
                              write_log(
                                add_to_outgoing(add_to_incoming(@, origin), origin),
                                From(lab2)),
                              To(tlab))]
                   ELSE g1
         IN  g2
    ELSE g

\* Option: None is the empty tuple, Some(x) the one-element tuple.
None == << >>

Some(x) == <<x>>

\* Mutant of find: the handle is taken from the throwaway lookup node, which
\* is dropped when find returns, instead of from the stored key.
find_throwaway(g, k) == IF unique(k) \in DOMAIN g THEN Some(<<k, 0>>) ELSE None

\* find: the handle of the live node with the payload's key, or None.
find(g, k) == IF unique(k) \in DOMAIN g THEN Some(<<k, g[unique(k)].id>>) ELSE None

\* get_by: the Edges the handle resolves to, or None.
get_by(g, val) == IF Present(g, val) THEN Some(g[val[1]]) ELSE None

\* Mutant of evict: the node is removed from the store but its neighbours'
\* lists are not cleaned.
evict_no_cascade(g, h) ==
    IF Upgrades(g, h)
    THEN [k \in DOMAIN g \ {h[1]} |-> g[k]]
    ELSE g

\* Mutant of evict: the cascade runs but the entry stays in the map.
evict_keep_key(g, nd) ==
    IF Present(g, nd)
    THEN invalidate_from(g[nd[1]], g, label(nd[1]))
    ELSE g

evict(g, nd) ==
    IF Present(g, nd)
    THEN LET edges == g[nd[1]]
             rest  == [x \in DOMAIN g \ {nd[1]} |-> g[x]]
         IN  invalidate_from(edges, rest, label(nd[1]))
    ELSE g

\* Mutant of position: the first entry that upgrades, whatever its key.
position_first_live(g, list, target, i) ==
    LET hits == {j \in i..Len(list) : Upgrades(g, list[j])}
    IN  IF hits = {} THEN 0 ELSE CHOOSE j \in hits : \A m \in hits : j <= m

\* Mutant of position: the last matching entry instead of the first.
position_last(g, list, target, i) ==
    LET hits == {j \in i..Len(list) :
                    Upgrades(g, list[j]) /\ unique(list[j][1]) = unique(target[1])}
    IN  IF hits = {} THEN 0 ELSE CHOOSE j \in hits : \A m \in hits : m <= j

\* iter().position(|o| o upgrades and is equal, by key, to the target): 0 when none.
RECURSIVE position(_, _, _, _)
position(g, list, target, i) ==
    IF i > Len(list) THEN 0
    ELSE IF Upgrades(g, list[i]) /\ unique(list[i][1]) = unique(target[1]) THEN i
         ELSE position(g, list, target, i + 1)

\* Vec::remove(pos)
remove_at(list, pos) == SubSeq(list, 1, pos - 1) \o SubSeq(list, pos + 1, Len(list))

\* Mutant of unlink: only the origin's outgoing entry is removed.
unlink_outgoing_only(g, from, to) ==
    IF Upgrades(g, from) /\ Upgrades(g, to) /\ Present(g, from)
    THEN LET pos == position(g, g[from[1]].outgoing, to, 1)
         IN  IF pos # 0
             THEN [g EXCEPT ![from[1]].outgoing = remove_at(@, pos)]
             ELSE g
    ELSE g

\* Mutant of unlink: a removed edge is recorded in the logs of both ends
\* (the UnlinkOut and UnlinkInc events of DagreEvent).
unlink_logged(g, from, to) ==
    IF Upgrades(g, from) /\ Upgrades(g, to)
    THEN LET g1 == IF Present(g, from)
                   THEN LET pos == position(g, g[from[1]].outgoing, to, 1)
                        IN  IF pos # 0
                            THEN [g EXCEPT ![from[1]] =
                                    write_log([@ EXCEPT !.outgoing = remove_at(@, pos)],
                                              UnlinkOut(label(to[1])))]
                            ELSE g
                   ELSE g
             g2 == IF Present(g1, to)
                   THEN LET pos == position(g1, g1[to[1]].incoming, from, 1)
                        IN  IF pos # 0
                            THEN [g1 EXCEPT ![to[1]] =
                                    write_log([@ EXCEPT !.incoming = remove_at(@, pos)],
                                              UnlinkInc(label(from[1])))]
                            ELSE g1
                   ELSE g1
         IN  g2
    ELSE g

\* Mutant of unlink: the call removes the node itself (an unlink of a node,
\* as the demo programs call it) instead of one edge.
unlink_evicts(g, from, to) == evict(g, from)

unlink(g, from, to) ==
    IF Upgrades(g, from) /\ Upgrades(g, to)
    THEN LET g1 == IF Present(g, from)
                   THEN LET pos == position(g, g[from[1]].outgoing, to, 1)
                        IN  IF pos # 0
                            THEN [g EXCEPT ![from[1]].outgoing = remove_at(@, pos)]
                            ELSE g
                   ELSE g
             g2 == IF Present(g1, to)
                   THEN LET pos == position(g1, g1[to[1]].incoming, from, 1)
                        IN  IF pos # 0
                            THEN [g1 EXCEPT ![to[1]].incoming = remove_at(@, pos)]
                            ELSE g1
                   ELSE g1
         IN  g2
    ELSE g

\* ------------------------------------------------------------- the caller
\* Every handle the store has handed out so far for the keys of K.
IssuedIn(al, K) == {h \in K \X (1..MaxAllocs) : h[2] <= al[h[1]]}

Issued == IssuedIn(allocs, Keys)

Bounded(g, maxEdges, maxLog) ==
    \A k \in DOMAIN g :
        /\ Len(g[k].incoming) <= maxEdges
        /\ Len(g[k].outgoing) <= maxEdges
        /\ Len(g[k].log_buf) <= maxLog

Call(op, key, from, to, ret) ==
    [op |-> op, key |-> key, from |-> from, to |-> to, ret |-> ret]

Snapshot == [store |-> store, allocs |-> allocs]

Init ==
    /\ store = << >>
    /\ allocs = [k \in Keys |-> 0]
    /\ last = Call("new", 0, None, None, None)
    /\ before = [store |-> << >>, allocs |-> [k \in Keys |-> 0]]

\* How many nodes the store has inserted over its life, all keys together.
RECURSIVE Total(_, _)
Total(al, K) ==
    IF K = {} THEN 0
    ELSE LET k == CHOOSE x \in K : TRUE IN al[k] + Total(al, K \ {k})

Node(k) ==
    /\ unique(k) \in DOMAIN store \/ Total(allocs, Keys) < MaxAllocs
    /\ store' = node_store(store, allocs, k)
    /\ allocs' = node_allocs(store, allocs, k)
    /\ last' = Call("node", k, None, None, node_ret(store, allocs, k))
    /\ before' = Snapshot

Unidirectional(a, b, maxEdges, maxLog) ==
    /\ Bounded(unidirectional(store, a, b), maxEdges, maxLog)
    /\ store' = unidirectional(store, a, b)
    /\ last' = Call("unidirectional", 0, a, b, None)
    /\ before' = Snapshot
    /\ UNCHANGED allocs

Bidirectional(a, b, maxEdges, maxLog) ==
    /\ Bounded(bidirectional(store, a, b), maxEdges, maxLog)
    /\ store' = bidirectional(store, a, b)
    /\ last' = Call("bidirectional", 0, a, b, None)
    /\ before' = Snapshot
    /\ UNCHANGED allocs

Find(k) ==
    /\ last' = Call("find", k, None, None, find(store, k))
    /\ before' = Snapshot
    /\ UNCHANGED <<store, allocs>>

Evict(h, maxEdges, maxLog) ==
    /\ Bounded(evict(store, h), maxEdges, maxLog)
    /\ store' = evict(store, h)
    /\ last' = Call("evict", 0, h, None, None)
    /\ before' = Snapshot
    /\ UNCHANGED allocs

Unlink(a, b) ==
    /\ store' = unlink(store, a, b)
    /\ last' = Call("unlink", 0, a, b, None)
    /\ before' = Snapshot
    /\ UNCHANGED allocs

Step(K, maxEdges, maxLog) ==
    \/ \E k \in K : Node(k)
    \/ \E a \in IssuedIn(allocs, K), b \in IssuedIn(allocs, K) :
            Unidirectional(a, b, maxEdges, maxLog)
    \/ \E a \in IssuedIn(allocs, K), b \in IssuedIn(allocs, K) :
            Bidirectional(a, b, maxEdges, maxLog)
    \/ \E k \in K : Find(k)
    \/ \E h \in IssuedIn(allocs, K) : Evict(h, maxEdges, maxLog)
    \/ \E a \in IssuedIn(allocs, K), b \in IssuedIn(allocs, K) : Unlink(a, b)

Next == Step(Keys, MaxEdges, MaxLog)

Spec == Init /\ [][Next]_vars

\* The same operations on the ring-log workload.
NextRing == Step(RingKeys, RingMaxEdges, RingMaxLog)

SpecRing == Init /\ [][NextRing]_vars

\* ======================================================================
\* Vocabulary of the claims
\* ======================================================================
\* resolve(handle): whether get_by yields an Edge Set.
Resolves(g, h) == get_by(g, h) # None

\* How often handle h occurs in a list.
Count(list, h) == Cardinality({i \in 1..Len(list) : list[i] = h})

\* The list without its first occurrence of h (h occurs in it).
WithoutFirst(list, h) ==
    LET p == CHOOSE i \in 1..Len(list) :
                 list[i] = h /\ \A j \in 1..(i - 1) : list[j] # h
    IN  [j \in 1..(Len(list) - 1) |-> IF j < p THEN list[j] ELSE list[j + 1]]

\* The adjacency lists of every node of K are what they were before the call.
ListsKept(K) ==
    \A k \in K :
        /\ store[k].incoming = before.store[k].incoming
        /\ store[k].outgoing = before.store[k].outgoing

IssuedBefore == IssuedIn(before.allocs, Keys)

\* ----------------------------------------------------------------------
\* C1  Upsert idempotence: node(payload) with a key that is already live
\* leaves the store size, every node's lists and every node's log unchanged,
\* and returns the handle the key's insertion returned, which resolves to
\* the same Edge Set.
C1_UpsertIdempotent ==
    (last.op = "node" /\ unique(last.key) \in DOMAIN before.store) =>
        /\ Cardinality(DOMAIN store) = Cardinality(DOMAIN before.store)
        /\ store = before.store
        /\ allocs = before.allocs
        /\ last.ret = <<last.key, before.allocs[last.key]>>
        /\ get_by(store, last.ret) = Some(before.store[unique(last.key)])

C1_Witness ==
    /\ last.op = "node"
    /\ unique(last.key) \in DOMAIN before.store
    /\ before.store[unique(last.key)].outgoing # << >>
    /\ Cardinality(DOMAIN before.store) = 2

\* ----------------------------------------------------------------------
\* C2  Eviction shrinks the store: evict(h) of a handle that resolves
\* removes exactly the key of h, so the size drops by 1, and afterwards h and
\* every other handle issued for that key resolve to absent.
C2_EvictShrinksStore ==
    (last.op = "evict" /\ Resolves(before.store, last.from)) =>
        /\ Cardinality(DOMAIN store) = Cardinality(DOMAIN before.store) - 1
        /\ DOMAIN store = DOMAIN before.store \ {unique(last.from[1])}
        /\ get_by(store, last.from) = None
        /\ find(store, last.from[1]) = None
        /\ \A h \in Issued : h[1] = last.from[1] => get_by(store, h) = None

C2_Witness ==
    /\ last.op = "evict"
    /\ Resolves(before.store, last.from)
    /\ Cardinality(DOMAIN before.store) = 2
    /\ before.store[last.from[1]].incoming # << >>
    /\ allocs[last.from[1]] = 2

C4_UnlinkPrecision ==
    (/\ last.op = "unlink"
     /\ Resolves(before.store, last.from)
     /\ Resolves(before.store, last.to)
     /\ Count(before.store[last.from[1]].outgoing, last.to) >= 1) =>
        LET a == last.from[1]
            b == last.to[1]
            P == before.store
        IN  /\ DOMAIN store = DOMAIN P
            /\ Count(P[b].incoming, last.from) >= 1
            /\ store[a].outgoing = WithoutFirst(P[a].outgoing, last.to)
            /\ store[b].incoming = WithoutFirst(P[b].incoming, last.from)
            /\ Len(store[a].outgoing) = Len(P[a].outgoing) - 1
            /\ Len(store[b].incoming) = Len(P[b].incoming) - 1
            /\ Count(store[a].outgoing, last.to) = Count(P[a].outgoing, last.to) - 1
            /\ Count(store[b].incoming, last.from) = Count(P[b].incoming, last.from) - 1
            /\ a # b => /\ store[a].incoming = P[a].incoming
                        /\ store[b].outgoing = P[b].outgoing
            /\ ListsKept(DOMAIN P \ {a, b})

C4_Witness ==
    /\ last.op = "unlink"
    /\ Resolves(before.store, last.from)
    /\ Resolves(before.store, last.to)
    /\ last.from # last.to
    /\ before.store[last.from[1]].outgoing = <<last.to, last.from, last.to>>
    /\ store[last.from[1]].outgoing = <<last.from, last.to>>

\* ----------------------------------------------------------------------
\* C5  Touched-neighbor cleanup: after evict(x), every live node that was in
\* x.incoming has no outgoing entry that fails to resolve (none for x), and
\* every live node that was in x.outgoing has no such incoming entry.
C5_TouchedNeighborCleanup ==
    (last.op = "evict" /\ Resolves(before.store, last.from)) =>
        LET x  == last.from
            ed == before.store[x[1]]
        IN  /\ \A i \in 1..Len(ed.incoming) :
                   LET n == ed.incoming[i]
                   IN  Resolves(store, n) =>
                         \A j \in 1..Len(store[n[1]].outgoing) :
                             /\ Resolves(store, store[n[1]].outgoing[j])
                             /\ store[n[1]].outgoing[j] # x
            /\ \A i \in 1..Len(ed.outgoing) :
                   LET m == ed.outgoing[i]
                   IN  Resolves(store, m) =>
                         \A j \in 1..Len(store[m[1]].incoming) :
                             /\ Resolves(store, store[m[1]].incoming[j])
                             /\ store[m[1]].incoming[j] # x

C5_Witness ==
    /\ last.op = "evict"
    /\ Resolves(before.store, last.from)
    /\ \E n \in DOMAIN store :
          /\ Count(before.store[last.from[1]].incoming, <<n, store[n].id>>) >= 1
          /\ Count(before.store[last.from[1]].outgoing, <<n, store[n].id>>) >= 1
          /\ Count(before.store[n].outgoing, last.from) >= 1
          /\ Count(before.store[n].incoming, last.from) >= 1
          /\ store[n].outgoing = << >>
          /\ store[n].incoming = << >>
\* ----------------------------------------------------------------------
\* C6  Stale-handle operations are silent no-ops: unidirectional,
\* bidirectional and unlink with at least one stale handle, and evict of a
\* stale handle, leave the whole store as it was (keys, lists, logs).
C6_StaleNoOp ==
    /\ (/\ last.op \in {"unidirectional", "bidirectional", "unlink"}
        /\ ~Resolves(before.store, last.from) \/ ~Resolves(before.store, last.to)) =>
            store = before.store /\ allocs = before.allocs
    /\ (last.op = "evict" /\ ~Resolves(before.store, last.from)) =>
            store = before.store /\ allocs = before.allocs

C6_Witness ==
    /\ last.op = "unidirectional"
    /\ ~Resolves(before.store, last.from)
    /\ Resolves(before.store, last.to)
    /\ last.from[1] \in DOMAIN before.store
    /\ before.store[last.to[1]].incoming # << >>

\* ----------------------------------------------------------------------
\* C7  Evicted is terminal: a handle that no longer resolves never resolves
\* again, whatever is called; inserting the key again makes a new node with
\* a new identity, empty lists and a log of its own Added entry only; and
\* link, unlink and evict called with a stale handle change nothing.
C7_EvictedIsTerminal ==
    /\ \A h \in IssuedBefore : ~Resolves(before.store, h) => ~Resolves(store, h)
    /\ (/\ last.op = "node"
        /\ unique(last.key) \notin DOMAIN before.store
        /\ before.allocs[last.key] >= 1) =>
            /\ last.ret \notin IssuedBefore
            /\ Resolves(store, last.ret)
            /\ store[unique(last.key)].incoming = << >>
            /\ store[unique(last.key)].outgoing = << >>
            /\ store[unique(last.key)].log_buf = <<to_string(Add(label(last.key)))>>
            /\ \A k \in DOMAIN before.store : store[k] = before.store[k]
    /\ (/\ last.op \in {"unidirectional", "bidirectional", "unlink"}
        /\ ~Resolves(before.store, last.from) \/ ~Resolves(before.store, last.to)) =>
            store = before.store
    /\ (last.op = "evict" /\ ~Resolves(before.store, last.from)) =>
            store = before.store

C7_Witness ==
    /\ last.op = "evict"
    /\ ~Resolves(before.store, last.from)
    /\ last.from[1] \in DOMAIN store
    /\ store[last.from[1]].id = last.from[2] + 1
    /\ store[last.from[1]].outgoing # << >>

\* ----------------------------------------------------------------------
\* C8  The Ring Log is bounded: the log of every live node holds at most
\* BUFSIZE (20) event records.
C8_RingLogBounded ==
    \A k \in DOMAIN store : Len(store[k].log_buf) <= BUFSIZE

\* ----------------------------------------------------------------------
\* C9  Log ordering as claimed: dumps emits the events written to a log most
\* recently written first (en, ..., e2, e1).
C9_DumpMostRecentFirst ==
    \A k \in DOMAIN store :
        LET e == store[k]
            n == Len(e.hist)
        IN  dumps(e.log_buf) = [i \in 1..n |-> to_string(e.hist[n + 1 - i])]

\* C9 as amended: dumps emits the events written to a log in the order they
\* were written, oldest first (e1, e2, ..., en).
C9_DumpOldestFirst ==
    \A k \in DOMAIN store :
        LET e == store[k]
            n == Len(e.hist)
        IN  dumps(e.log_buf) = [i \in 1..n |-> to_string(e.hist[i])]

C9_Witness ==
    \E k \in DOMAIN store :
        /\ Len(store[k].hist) >= 4
        /\ store[k].hist[1][1] = "Add"
        /\ store[k].hist[2][1] = "To"
        /\ store[k].hist[3][1] = "From"
        /\ store[k].hist[4][1] = "Remove"

\* ----------------------------------------------------------------------
\* C10  Bidirectional link, adjacency: bidirectional(a, b) with both handles
\* live and a # b appends b to a.outgoing and a.incoming and a to
\* b.incoming and b.outgoing (one more occurrence each), and changes no
\* other node's lists.
C10_BidirectionalAdjacency ==
    (/\ last.op = "bidirectional"
     /\ Resolves(before.store, last.from)
     /\ Resolves(before.store, last.to)
     /\ last.from # last.to) =>
        LET a == last.from[1]
            b == last.to[1]
            P == before.store
        IN  /\ DOMAIN store = DOMAIN P
            /\ store[a].outgoing = Append(P[a].outgoing, last.to)
            /\ store[a].incoming = Append(P[a].incoming, last.to)
            /\ store[b].incoming = Append(P[b].incoming, last.from)
            /\ store[b].outgoing = Append(P[b].outgoing, last.from)
            /\ Count(store[a].outgoing, last.to) = Count(P[a].outgoing, last.to) + 1
            /\ Count(store[a].incoming, last.to) = Count(P[a].incoming, last.to) + 1
            /\ Count(store[b].incoming, last.from) = Count(P[b].incoming, last.from) + 1
            /\ Count(store[b].outgoing, last.from) = Count(P[b].outgoing, last.from) + 1
            /\ ListsKept(DOMAIN P \ {a, b})

C10_Witness ==
    /\ last.op = "bidirectional"
    /\ Resolves(before.store, last.from)
    /\ Resolves(before.store, last.to)
    /\ last.from # last.to
    /\ before.store[last.from[1]].outgoing # << >>
    /\ before.store[last.to[1]].outgoing # << >>
\* ----------------------------------------------------------------------
\* The log of node k gained exactly the events evs, written in that order,
\* on top of what it held before the call: as events (hist) and as the
\* text lines of the buffer, latest line at the front.
LogGained(k, evs) ==
    /\ store[k].hist = before.store[k].hist \o evs
    /\ store[k].log_buf =
           [i \in 1..Len(evs) |-> to_string(evs[Len(evs) + 1 - i])]
               \o before.store[k].log_buf

\* The logs of every node of K are what they were before the call.
LogsKept(K) ==
    \A k \in K :
        /\ store[k].log_buf = before.store[k].log_buf
        /\ store[k].hist = before.store[k].hist

\* C11  Unidirectional link logging: a successful unidirectional(from, to)
\* appends exactly one LinkedTo(label of to) to from's log and exactly one
\* LinkedFrom(label of from) to to's log (both to the one log of a self-loop,
\* in that order), and nothing to any other node's log.
C11_UnidirectionalLogging ==
    (/\ last.op = "unidirectional"
     /\ Resolves(before.store, last.from)
     /\ Resolves(before.store, last.to)) =>
        LET a == last.from[1]
            b == last.to[1]
        IN  /\ a # b => /\ LogGained(a, <<To(label(b))>>)
                        /\ LogGained(b, <<From(label(a))>>)
                        /\ store[a].log_buf[1] = "*  -> " \o ToString(b) \o "\n"
                        /\ store[b].log_buf[1] = ToString(a) \o " -> *\n"
            /\ a = b => LogGained(a, <<To(label(a)), From(label(a))>>)
            /\ LogsKept(DOMAIN before.store \ {a, b})

C11_Witness ==
    /\ last.op = "unidirectional"
    /\ Resolves(before.store, last.from)
    /\ Resolves(before.store, last.to)
    /\ last.from # last.to
    /\ Len(before.store[last.from[1]].log_buf) >= 2
    /\ Len(before.store[last.to[1]].log_buf) >= 2
\* ----------------------------------------------------------------------
\* The log of node k gained exactly two events, those of the set evs, in
\* either order.
LogGainedBoth(k, evs) ==
    LET h == store[k].hist
        n == Len(before.store[k].hist)
    IN  /\ Len(h) = n + 2
        /\ SubSeq(h, 1, n) = before.store[k].hist
        /\ {h[n + 1], h[n + 2]} = evs
        /\ Len(store[k].log_buf) = Len(before.store[k].log_buf) + 2

\* C12  Bidirectional link logging: a successful bidirectional(a, b) with
\* a # b logs both event kinds on each side, each naming the peer's label:
\* a's log gains LinkedTo(label of b) and LinkedFrom(label of b), b's log
\* gains LinkedFrom(label of a) and LinkedTo(label of a).
C12_BidirectionalLogging ==
    (/\ last.op = "bidirectional"
     /\ Resolves(before.store, last.from)
     /\ Resolves(before.store, last.to)
     /\ last.from # last.to) =>
        LET a == last.from[1]
            b == last.to[1]
        IN  /\ LogGainedBoth(a, {To(label(b)), From(label(b))})
            /\ LogGainedBoth(b, {From(label(a)), To(label(a))})
\* ----------------------------------------------------------------------
\* C13  Node insertion: node(payload) with a key that is not live adds
\* exactly that key to the store (size + 1), gives the new node empty
\* incoming and outgoing lists and a log of exactly one entry Added(own
\* label), returns a handle that resolves to that node, and changes no other
\* node's lists or log.
C13_NodeInsertion ==
    (last.op = "node" /\ unique(last.key) \notin DOMAIN before.store) =>
        LET k == unique(last.key)
        IN  /\ DOMAIN store = DOMAIN before.store \cup {k}
            /\ Cardinality(DOMAIN store) = Cardinality(DOMAIN before.store) + 1
            /\ store[k].incoming = << >>
            /\ store[k].outgoing = << >>
            /\ store[k].hist = <<Add(label(last.key))>>
            /\ store[k].log_buf = <<"[+]   " \o ToString(last.key) \o "\n">>
            /\ get_by(store, last.ret) = Some(store[k])
            /\ find(store, last.key) = Some(last.ret)
            /\ \A x \in DOMAIN before.store : store[x] = before.store[x]

C13_Witness ==
    /\ last.op = "node"
    /\ unique(last.key) \notin DOMAIN before.store
    /\ \E x \in DOMAIN before.store : before.store[x].outgoing # << >>
    /\ last.ret[2] = 1
\* ----------------------------------------------------------------------
\* C14  Lookup: find(payload) returns a handle exactly when the payload's
\* key is live; the handle is the one node() returned for the key's current
\* insertion (the new node after an evict and re-insert) and resolves to its
\* Edge Set; find changes neither keys, lists nor logs.
C14_FindLookup ==
    (last.op = "find") =>
        LET k == unique(last.key)
        IN  /\ store = before.store
            /\ allocs = before.allocs
            /\ last.ret # None <=> k \in DOMAIN store
            /\ k \in DOMAIN store =>
                  /\ last.ret = Some(<<last.key, allocs[last.key]>>)
                  /\ get_by(store, last.ret[1]) = Some(store[k])

C14_Witness ==
    /\ last.op = "find"
    /\ unique(last.key) \in DOMAIN store
    /\ last.ret = Some(<<last.key, 2>>)
    /\ store[unique(last.key)].incoming # << >>

\* ----------------------------------------------------------------------
\* C16  Unlink with no matching edge is a no-op: with a and b live, no entry
\* for b in a.outgoing and none for a in b.incoming, unlink(a, b) leaves the
\* whole store unchanged; an edge b->a in the opposite direction stays.
C16_UnlinkNoMatch ==
    (/\ last.op = "unlink"
     /\ Resolves(before.store, last.from)
     /\ Resolves(before.store, last.to)
     /\ Count(before.store[last.from[1]].outgoing, last.to) = 0
     /\ Count(before.store[last.to[1]].incoming, last.from) = 0) =>
        /\ store = before.store
        /\ allocs = before.allocs

C16_Witness ==
    /\ last.op = "unlink"
    /\ Resolves(before.store, last.from)
    /\ Resolves(before.store, last.to)
    /\ last.from # last.to
    /\ Count(before.store[last.from[1]].outgoing, last.to) = 0
    /\ Count(before.store[last.to[1]].incoming, last.from) = 0
    /\ Count(before.store[last.to[1]].outgoing, last.from) >= 1
    /\ Count(store[last.from[1]].incoming, last.to) >= 1
    /\ before.store[last.from[1]].outgoing # << >>

\* ----------------------------------------------------------------------
\* C17  Linking and unlinking never add or remove store entries:
\* unidirectional, bidirectional and unlink leave the set of live keys, and
\* so the store size, unchanged in every case.
C17_LinksKeepKeys ==
    (last.op \in {"unidirectional", "bidirectional", "unlink"}) =>
        /\ DOMAIN store = DOMAIN before.store
        /\ Cardinality(DOMAIN store) = Cardinality(DOMAIN before.store)
        /\ \A k \in DOMAIN store : store[k].id = before.store[k].id
        /\ allocs = before.allocs

C17_Witness ==
    /\ last.op = "unlink"
    /\ Resolves(before.store, last.from)
    /\ Resolves(before.store, last.to)
    /\ store # before.store
    /\ store[last.from[1]].outgoing = << >>
    /\ store[last.from[1]].incoming = << >>
    /\ Cardinality(DOMAIN store) = 2
\* ----------------------------------------------------------------------
\* C18  Eviction logging: evict(x) appends to the log of each live node n
\* one Removed(label of x) per occurrence of n in x.incoming plus one per
\* occurrence of n in x.outgoing; a node in neither list gets none, and x's
\* own self-loop entries produce none.
C18_EvictionLogging ==
    (last.op = "evict" /\ Resolves(before.store, last.from)) =>
        LET x  == last.from
            ed == before.store[x[1]]
        IN  \A n \in DOMAIN store :
                LET hn == <<n, store[n].id>>
                    c  == Count(ed.incoming, hn) + Count(ed.outgoing, hn)
                IN  LogGained(n, [i \in 1..c |-> Remove(label(x[1]))])

C18_Witness ==
    /\ last.op = "evict"
    /\ Resolves(before.store, last.from)
    /\ Count(before.store[last.from[1]].incoming, last.from) >= 1
    /\ \E n \in DOMAIN store :
          /\ Count(before.store[last.from[1]].incoming, <<n, store[n].id>>) >= 1
          /\ Count(before.store[last.from[1]].outgoing, <<n, store[n].id>>) >= 1
          /\ Len(store[n].log_buf) = Len(before.store[n].log_buf) + 2
          /\ store[n].log_buf[1] = "[-]   " \o ToString(last.from[1]) \o "\n"

\* ----------------------------------------------------------------------
\* C19  Unlink produces no log entry: unlink(from, to) leaves every node's
\* log unchanged, whether or not an edge was removed, and changes nothing
\* but from.outgoing and to.incoming.
C19_UnlinkSilent ==
    (last.op = "unlink") =>
        /\ DOMAIN store = DOMAIN before.store
        /\ LogsKept(DOMAIN store)
        /\ \A k \in DOMAIN store :
              /\ store[k].id = before.store[k].id
              /\ store[k].outgoing # before.store[k].outgoing =>
                    Resolves(before.store, last.from) /\ k = last.from[1]
              /\ store[k].incoming # before.store[k].incoming =>
                    Resolves(before.store, last.to) /\ k = last.to[1]

C19_Witness ==
    /\ last.op = "unlink"
    /\ last.from # last.to
    /\ Len(store[last.from[1]].outgoing) = Len(before.store[last.from[1]].outgoing) - 1
    /\ Len(store[last.to[1]].incoming) = Len(before.store[last.to[1]].incoming) - 1
    /\ Len(store[last.from[1]].log_buf) >= 3

\* ----------------------------------------------------------------------
\* C20  The bidirectional variant performs both directions: for any two
\* live handles a, b (a = b included), bidirectional(a, b) leaves every node
\* with the same incoming and outgoing lists, in the same order, as
\* unidirectional(a, b) followed by unidirectional(b, a).
C20_BidirectionalIsTwoLinks ==
    (/\ last.op = "bidirectional"
     /\ Resolves(before.store, last.from)
     /\ Resolves(before.store, last.to)) =>
        LET U == unidirectional(unidirectional(before.store, last.from, last.to),
                                last.to, last.from)
        IN  /\ DOMAIN store = DOMAIN U
            /\ \A k \in DOMAIN store :
                  /\ store[k].incoming = U[k].incoming
                  /\ store[k].outgoing = U[k].outgoing

C20_Witness ==
    /\ last.op = "bidirectional"
    /\ Resolves(before.store, last.from)
    /\ last.from = last.to
    /\ Len(store[last.from[1]].outgoing) = 2
    /\ Cardinality(DOMAIN store) = 2
\* ======================================================================
\* The demonstration workload: four nodes 10, 20, 30, 40, six links, then
\* the eviction of node 10.
\* ======================================================================
ScenarioKeys == {10, 20, 30, 40}

\* The links in the order they are made.
ScenarioLinks ==
    << <<10, 20>>, <<40, 20>>, <<30, 20>>, <<10, 30>>, <<10, 40>>, <<10, 10>> >>

\* The handle node(k) returned: every key is allocated once.
ScenarioHandle(k) == <<k, 1>>

\* How many of the links have been made.
LinksMade(g) ==
    Cardinality({i \in 1..Len(ScenarioLinks) :
        /\ ScenarioLinks[i][1] \in DOMAIN g
        /\ Count(g[ScenarioLinks[i][1]].outgoing,
                 ScenarioHandle(ScenarioLinks[i][2])) >= 1})

InitScenario ==
    /\ store = << >>
    /\ allocs = [k \in ScenarioKeys |-> 0]
    /\ last = Call("new", 0, None, None, None)
    /\ before = [store |-> << >>, allocs |-> [k \in ScenarioKeys |-> 0]]

\* node(k), before any link is made; a key may be inserted again (an upsert).
ScenarioInsert(k) ==
    /\ \A n \in DOMAIN store : store[n].outgoing = << >>
    /\ k \in DOMAIN store \/ allocs[k] = 0
    /\ store' = node_store(store, allocs, k)
    /\ allocs' = node_allocs(store, allocs, k)
    /\ last' = Call("node", k, None, None, node_ret(store, allocs, k))
    /\ before' = Snapshot

\* The next link of the list, once the four nodes are stored.
ScenarioLink ==
    /\ DOMAIN store = ScenarioKeys
    /\ LinksMade(store) < Len(ScenarioLinks)
    /\ LET l == ScenarioLinks[LinksMade(store) + 1]
           a == ScenarioHandle(l[1])
           b == ScenarioHandle(l[2])
       IN  /\ store' = unidirectional(store, a, b)
           /\ last' = Call("unidirectional", 0, a, b, None)
    /\ before' = Snapshot
    /\ UNCHANGED allocs

\* find(k), at any point.
ScenarioFind(k) ==
    /\ last' = Call("find", k, None, None, find(store, k))
    /\ before' = Snapshot
    /\ UNCHANGED <<store, allocs>>

\* evict(10), once the six links are made.
ScenarioEvict ==
    /\ DOMAIN store = ScenarioKeys
    /\ LinksMade(store) = Len(ScenarioLinks)
    /\ store' = evict(store, ScenarioHandle(10))
    /\ last' = Call("evict", 0, ScenarioHandle(10), None, None)
    /\ before' = Snapshot
    /\ UNCHANGED allocs

NextScenario ==
    \/ \E k \in ScenarioKeys : ScenarioInsert(k)
    \/ ScenarioLink
    \/ \E k \in ScenarioKeys : ScenarioFind(k)
    \/ ScenarioEvict

SpecScenario == InitScenario /\ [][NextScenario]_vars

\* ----------------------------------------------------------------------
\* C15  Scenario: after inserting 10, 20, 30, 40 and linking 10->20, 40->20,
\* 30->20, 10->30, 10->40, 10->10 the store holds 4 nodes, node 20 has 3
\* incoming entries, node 10's outgoing list is (20, 30, 40, 10) and its
\* incoming list has length 1.  After evict(10) the store holds 3 nodes,
\* the handle of 10 resolves to nothing, node 20's incoming list is (40, 30)
\* and node 30 holds no entry for 10.
C15_Scenario ==
    /\ (DOMAIN store = ScenarioKeys /\ LinksMade(store) = Len(ScenarioLinks)) =>
          /\ Cardinality(DOMAIN store) = 4
          /\ Len(store[20].incoming) = 3
          /\ store[10].outgoing = <<ScenarioHandle(20), ScenarioHandle(30),
                                    ScenarioHandle(40), ScenarioHandle(10)>>
          /\ Len(store[10].outgoing) = 4
          /\ Len(store[10].incoming) = 1
          /\ store[10].incoming = <<ScenarioHandle(10)>>
    /\ (allocs[10] = 1 /\ 10 \notin DOMAIN store) =>
          /\ Cardinality(DOMAIN store) = 3
          /\ get_by(store, ScenarioHandle(10)) = None
          /\ find(store, 10) = None
          /\ store[20].incoming = <<ScenarioHandle(40), ScenarioHandle(30)>>
          /\ Len(store[20].incoming) = 2
          /\ Count(store[30].incoming, ScenarioHandle(10)) = 0
          /\ Count(store[30].outgoing, ScenarioHandle(10)) = 0

C15_Witness ==
    /\ last.op = "evict"
    /\ last.from = ScenarioHandle(10)
    /\ LinksMade(before.store) = Len(ScenarioLinks)
    /\ Len(before.store[20].incoming) = 3
    /\ 10 \notin DOMAIN store
    /\ DOMAIN store = {20, 30, 40}
\* ======================================================================
\* Invariants of the adjacency lists
\* ======================================================================
\* The handle of the live node stored under key k.
LiveHandle(g, k) == <<k, g[k].id>>

\* The list without its entries for handle h, order kept.
WithoutAll(list, h) == SelectSeq(list, LAMBDA e : e # h)

\* ----------------------------------------------------------------------
\* C21  No stale entry is ever left behind: in every reachable state every
\* handle in the incoming or outgoing list of a live node resolves to a live
\* node, so the length of a list equals its number of live entries, and the
\* filter of evict(x) removes entries for x and nothing else.
C21_NoStaleEntry ==
    /\ \A n \in DOMAIN store :
          /\ \A i \in 1..Len(store[n].incoming) :
                Resolves(store, store[n].incoming[i])
          /\ \A i \in 1..Len(store[n].outgoing) :
                Resolves(store, store[n].outgoing[i])
          /\ Len(store[n].incoming) = Len(retain_live(store, store[n].incoming))
          /\ Len(store[n].outgoing) = Len(retain_live(store, store[n].outgoing))
    /\ (last.op = "evict" /\ Resolves(before.store, last.from)) =>
          \A n \in DOMAIN store :
              /\ store[n].incoming = WithoutAll(before.store[n].incoming, last.from)
              /\ store[n].outgoing = WithoutAll(before.store[n].outgoing, last.from)

C21_Witness ==
    /\ last.op = "evict"
    /\ Resolves(before.store, last.from)
    /\ \E n \in DOMAIN store :
          /\ Count(before.store[n].outgoing, last.from) >= 1
          /\ Len(store[n].outgoing) >= 1
          /\ Len(store[n].outgoing) < Len(before.store[n].outgoing)
          /\ allocs[last.from[1]] >= 2

\* ----------------------------------------------------------------------
\* C22  Adjacency mirror: in every reachable state, for all live nodes a and
\* b (a = b included), b occurs in a.outgoing as often as a occurs in
\* b.incoming.
C22_AdjacencyMirror ==
    \A a \in DOMAIN store, b \in DOMAIN store :
        Count(store[a].outgoing, LiveHandle(store, b))
            = Count(store[b].incoming, LiveHandle(store, a))

C22_Witness ==
    /\ last.op = "unlink"
    /\ store # before.store
    /\ \E a \in DOMAIN store, b \in DOMAIN store :
          /\ a # b
          /\ Count(store[a].outgoing, LiveHandle(store, b)) = 1
          /\ Count(before.store[a].outgoing, LiveHandle(store, b)) = 2
          /\ Count(store[a].outgoing, LiveHandle(store, a)) = 1

\* ----------------------------------------------------------------------
\* C23  Eviction frame: evict(x) leaves a live node that is in neither
\* x.incoming nor x.outgoing unchanged (lists and log); a neighbour of x
\* keeps its entries for nodes other than x in their order, and keeps its
\* log entries, gaining only Removed entries.
C23_EvictionFrame ==
    (last.op = "evict" /\ Resolves(before.store, last.from)) =>
        LET x  == last.from
            ed == before.store[x[1]]
        IN  \A n \in DOMAIN store :
                LET hn == LiveHandle(store, n)
                    c  == Len(store[n].hist) - Len(before.store[n].hist)
                IN  IF hn = x \/ n \notin DOMAIN before.store
                    THEN FALSE
                    ELSE IF Count(ed.incoming, hn) = 0 /\ Count(ed.outgoing, hn) = 0
                    THEN store[n] = before.store[n]
                    ELSE /\ WithoutAll(store[n].incoming, x)
                              = WithoutAll(before.store[n].incoming, x)
                         /\ WithoutAll(store[n].outgoing, x)
                              = WithoutAll(before.store[n].outgoing, x)
                         /\ c >= 0
                         /\ LogGained(n, [i \in 1..c |-> Remove(label(x[1]))])

C23_Witness ==
    /\ last.op = "evict"
    /\ Resolves(before.store, last.from)
    /\ \E n \in DOMAIN store :
          /\ Count(before.store[last.from[1]].incoming, LiveHandle(store, n)) = 1
          /\ Count(before.store[last.from[1]].outgoing, LiveHandle(store, n)) = 0
          /\ Len(before.store[n].outgoing) = 2
          /\ store[n].outgoing = <<LiveHandle(store, n)>>
          /\ store[n].incoming = <<LiveHandle(store, n)>>

=============================================================================
